---- MODULE Spec2Model ----
(***************************************************************************)
(* Cumbiatron: the stepper axis (hardware/stepper.py), the cart with its   *)
(* limit-switch interrupt handler and homing run (cart/cumbiatron_cart.py).*)
(*                                                                         *)
(* One cooperative task executes the operations statement by statement;    *)
(* program counters are named after the operation and the source line.     *)
(* Interrupt-context code (the switch handler, the pulse-count timer       *)
(* callback) and the PWM hardware run between any two statements.          *)
(*                                                                         *)
(* position is kept in units of 1/Scale step, so that the true division    *)
(* pulse_count / current_microstep of the source is exact.                 *)
(***************************************************************************)
EXTENDS Integers, Sequences, FiniteSets, TLC

\* ------------------------------------------------------------- bounds
MaxPulses == 2
MaxPhys == 2
MaxPos == 2
MaxSamples == 2
MaxSps == 40

\* ------------------------------------------------- program constants
Scale == 32
ClockFreq == 125000000
MaxDiv == 255
MaxWrap == 65535
MinFreq == 10
PollMs == 1
ProfilePollMs == 10
GoodSpeed == 200
BadSpeed == 130000000

MICROSTEP_MODES == {1, 2, 4, 8, 16, 32}

ModePins(m) ==
    CASE m = 1 -> <<0, 0, 0>>
      [] m = 2 -> <<1, 0, 0>>
      [] m = 4 -> <<0, 1, 0>>
      [] m = 8 -> <<1, 1, 0>>
      [] m = 16 -> <<0, 0, 1>>
      [] OTHER -> <<1, 0, 1>>

\* ------------------------------------------------------------- inputs
NoneArg == 0
MicrostepArgs == {NoneArg, 1, 2, 3}
Directions == {-1, 1}
Speeds == {GoodSpeed, BadSpeed}
\* durations that end a move before its first poll and within a later one
Durations(period) == {0} \cup {k * period + 1 : k \in 1 .. MaxSamples - 1}
\* a speed profile is a caller-supplied pure function of (elapsed, total);
\* the inputs are the piecewise-constant ones <<first sample, later samples>>
Profiles == Speeds \X Speeds
Targets == 0 .. MaxPos
\* requested steps per second: the slow end, where the 10 Hz floor applies,
\* and the speeds around which the divisor and the outcome change
SpsArgs == (0 .. MaxSps)
           \cup {59, 60, 1907, 1908, 2000, 3906250, 3906251, 62500000, 62500001}

VARIABLES
    \* StepperMotorController
    position, direction, current_microstep, mode_pins, pulse_count,
    pwm_duty, timer_on, enabled,
    \* CumbiatronCart
    is_homing, switch_activated,
    \* the switch lines as the pins read them, and the carriage
    home_level, end_level, phys,
    \* the cooperative task: operation, statement, locals, what it printed
    warned,
    op, pc, speed, profile, duration, elapsed, target, steps, exc, result,
    \* history of the current call: the position at its start, of a timed move
    \* the limit switch level at its start, which switch
    \* first stopped the axis mid-move, whether its PWM was armed and pulsed,
    \* the timer callbacks run during it;
    \* of a cart move also the cancellation signal at its start, whether a
    \* switch tripped the interlock since the signal was cleared, and the
    \* pulse count at the stop
    pos0, level0, stale, armed, pulsed, ticks, tripped, stopped, stopCount,
    \* the previous call, when it was an uninterrupted move_to_position
    prev,
    \* CumbiatronCart.servo_states, and of each Servo its current_angle and
    \* the clamped angle its PWM drives (0 when the PWM is off)
    servo_states, current_angle, servo_drive,
    \* the coroutines that run note operations, and for each servo the side
    \* of the last completed play_note when nothing has touched it since
    stask, lastPlay,
    \* the timer computation of _set_speed when run on its own: the requested
    \* steps per second, the microstep mode in force (NoneArg before the first
    \* run) and what _calculate_pwm_parameters returned (<<>> for None)
    req_sps, req_microstep, pwm_params

stepperVars == <<position, direction, current_microstep, mode_pins, pulse_count,
                 pwm_duty, timer_on, enabled>>
cartVars == <<is_homing, switch_activated>>
lineVars == <<home_level, end_level, phys>>
taskVars == <<op, pc, speed, profile, duration, elapsed, target, steps, exc, result>>
locals == <<speed, profile, duration, elapsed, target, steps>>
callHist == <<pos0, level0, stale, armed, pulsed, ticks, tripped, stopped, stopCount>>
histVars == <<callHist, prev>>
axisVars == <<stepperVars, cartVars, lineVars, taskVars, warned, histVars>>
servoVars == <<servo_states, current_angle, servo_drive, stask, lastPlay>>
clockVars == <<req_sps, req_microstep, pwm_params>>
vars == <<axisVars, servoVars, clockVars>>

NoResult == [kind |-> "none", val |-> 0]
Ok(v) == [kind |-> "ok", val |-> v]
Raised(e) == [kind |-> e, val |-> 0]

\* the home switch closes (reads 0) when the carriage rests on it
HomeRead(p) == IF p = 0 THEN 0 ELSE 1
\* an edge the pin has not yet delivered to its handler
EdgePending == home_level # HomeRead(phys)

Clamp(p) == IF p < 0 THEN 0 ELSE IF p > MaxPhys THEN MaxPhys ELSE p

\* ------------------------------------------------- MotionProfileClock
\* clock_freq // (freq * div), written as two floor divisions (equal for
\* positive integers) so that freq * div is never formed beyond 32 bits
Wrap(freq, div) == (ClockFreq \div freq) \div div

\* a divisor search that returns the first divisor without the range test
calculate_pwm_parameters_unchecked(freq) == <<1, Wrap(freq, 1)>>

\* a divisor search that returns the last acceptable divisor, not the first
calculate_pwm_parameters_last(freq) ==
    LET ok == {d \in 1 .. MaxDiv : 1 <= Wrap(freq, d) /\ Wrap(freq, d) <= MaxWrap}
    IN  IF ok = {} THEN <<>>
        ELSE LET div == CHOOSE d \in ok : \A e \in ok : d >= e
             IN  <<div, Wrap(freq, div)>>

\* for div in range(1, 256): the first div whose wrap is in range, else None
calculate_pwm_parameters(freq) ==
    LET ok == {d \in 1 .. MaxDiv : 1 <= Wrap(freq, d) /\ Wrap(freq, d) <= MaxWrap}
    IN  IF ok = {} THEN <<>>
        ELSE LET div == CHOOSE d \in ok : \A e \in ok : d <= e
             IN  <<div, Wrap(freq, div)>>

AdjustedFreq(sps, microstep) ==
    LET f == sps * microstep IN IF f > MinFreq THEN f ELSE MinFreq

\* TRUE when _set_speed raises ValueError
SetSpeedRaises(sps, microstep) ==
    calculate_pwm_parameters(AdjustedFreq(sps, microstep)) = <<>>

SampleProfile(p, t, total) == IF t = 0 THEN p[1] ELSE p[2]

ActualSteps(count, microstep) == count * (Scale \div microstep)


NoPrev == [ok |-> FALSE, from |-> 0, to |-> 0]

\* ------------------------------------------------------- servos and notes
NumServos == 7
Servos == 0 .. NumServos - 1
NeutralAngle == 90
servo_orientations == [i \in Servos |-> IF i < 4 THEN 1 ELSE -1]
\* the coroutines a client runs note operations in
Coroutines == {"a", "b"}
IdleTask == [op |-> "none", pc |-> "idle", arg |-> 0, idx |-> 0, left |-> FALSE,
             issued |-> 0, st0 |-> 0, rep |-> FALSE, wrote |-> FALSE,
             raised |-> FALSE]
TargetPositions == {t * Scale : t \in Targets}

\* ---------------------------------------------------------------- Init
Init ==
    /\ position = 0 /\ direction = 1 /\ current_microstep = 1
    /\ mode_pins = <<0, 0, 0>> /\ pulse_count = 0
    /\ pwm_duty = 0 /\ timer_on = FALSE
    \* the constructor never writes the enable line
    /\ enabled \in BOOLEAN
    /\ is_homing = FALSE /\ switch_activated = FALSE /\ warned = FALSE
    /\ phys \in 0 .. MaxPhys /\ home_level = HomeRead(phys) /\ end_level = 1
    /\ op = "none" /\ pc = "idle"
    /\ speed = 0 /\ profile = <<0, 0>> /\ duration = 0 /\ elapsed = 0
    /\ target = 0 /\ steps = 0 /\ exc = "none" /\ result = NoResult
    /\ pos0 = 0 /\ level0 = 1 /\ stale = FALSE /\ armed = FALSE /\ pulsed = FALSE /\ ticks = 0
    /\ tripped = FALSE /\ stopped = "no" /\ stopCount = 0
    /\ prev = NoPrev
    /\ servo_states = [i \in Servos |-> 0]
    /\ current_angle = [i \in Servos |-> NeutralAngle]
    /\ servo_drive = [i \in Servos |-> 0]
    /\ stask = [t \in Coroutines |-> IdleTask]
    /\ lastPlay = [i \in Servos |-> "none"]
    /\ req_sps = 0 /\ req_microstep = NoneArg /\ pwm_params = <<>>

\* ------------------------------------------------ StepperMotorController
set_direction(d) == IF d > 0 THEN 1 ELSE -1

\* _stop_motor: PWM off, pulse-count timer stopped, driver disabled
stop_motor ==
    /\ pwm_duty' = 0
    /\ timer_on' = FALSE
    /\ enabled' = FALSE

InRange == position >= -(MaxPos * Scale) /\ position <= MaxPos * Scale

\* the task runs one statement; a delivered edge is handled first
Task(o, at) ==
    /\ op = o /\ pc = at /\ ~EdgePending
    /\ UNCHANGED <<prev, servoVars, clockVars>>

Begin(o) ==
    /\ pc = "idle" /\ ~EdgePending
    /\ op' = o
    /\ pos0' = position
    /\ level0' = (IF o \in {"move_for_time", "move_with_variable_speed"}
                THEN home_level ELSE 1)
    /\ stale' = (o = "move_to_position" /\ switch_activated)
    /\ armed' = FALSE /\ pulsed' = FALSE /\ ticks' = 0
    /\ tripped' = FALSE /\ stopped' = "no" /\ stopCount' = 0
    /\ prev' = (IF o = "move_to_position" THEN prev ELSE NoPrev)
    /\ UNCHANGED <<exc, warned, servoVars, clockVars>>

\* set_microstep_mode(microstep), called while idle
SetMicrostepMode ==
    /\ Begin("set_microstep_mode")
    /\ \E m \in MicrostepArgs \ {NoneArg} :
         IF m \notin MICROSTEP_MODES
         THEN /\ result' = Raised("ValueError(microstep)")
              /\ UNCHANGED <<current_microstep, mode_pins>>
         ELSE /\ mode_pins' = ModePins(m)
              /\ current_microstep' = m
              /\ result' = Ok(0)
    /\ pc' = "ret"
    /\ UNCHANGED <<position, direction, pulse_count, pwm_duty, timer_on, enabled,
                   cartVars, lineVars, locals>>

Enable ==
    /\ Begin("enable")
    /\ enabled' = TRUE /\ pc' = "ret" /\ result' = Ok(0)
    /\ UNCHANGED <<position, direction, current_microstep, mode_pins, pulse_count,
                   pwm_duty, timer_on, cartVars, lineVars, locals>>

Disable ==
    /\ Begin("disable")
    /\ enabled' = FALSE /\ pc' = "ret" /\ result' = Ok(0)
    /\ UNCHANGED <<position, direction, current_microstep, mode_pins, pulse_count,
                   pwm_duty, timer_on, cartVars, lineVars, locals>>

\* lines 75-79 and 107-111: the optional microstep change, then set_direction
MoveEntry(d, m, first) ==
    IF m # NoneArg /\ m \notin MICROSTEP_MODES
    THEN /\ result' = Raised("ValueError(microstep)") /\ pc' = "ret"
         /\ UNCHANGED <<current_microstep, mode_pins, direction>>
    ELSE /\ current_microstep' = (IF m = NoneArg THEN current_microstep ELSE m)
         /\ mode_pins' = (IF m = NoneArg THEN mode_pins ELSE ModePins(m))
         /\ direction' = set_direction(d)
         /\ pc' = first /\ UNCHANGED result

CallMoveForTime ==
    /\ Begin("move_for_time") /\ InRange
    /\ \E d \in Directions, s \in Speeds, t \in Durations(PollMs), m \in MicrostepArgs :
         /\ speed' = s /\ duration' = t
         /\ MoveEntry(d, m, "mft_80")
    /\ UNCHANGED <<position, pulse_count, pwm_duty, timer_on, enabled,
                   cartVars, lineVars, profile, elapsed, target, steps>>

\* _set_speed(steps_per_second) at `at`; inside the try block (viaFinally) the
\* ValueError runs the finally clause before it leaves the call
SetSpeed(o, at, good, bad, viaFinally) ==
    /\ Task(o, at)
    /\ IF SetSpeedRaises(speed, current_microstep)
       THEN /\ pc' = bad
            /\ exc' = (IF viaFinally THEN "ValueError(frequency)" ELSE exc)
            /\ result' = (IF viaFinally THEN result ELSE Raised("ValueError(frequency)"))
            /\ UNCHANGED <<pwm_duty, armed>>
       ELSE /\ pwm_duty' = 32768 /\ armed' = TRUE /\ pc' = good
            /\ UNCHANGED <<exc, result>>
    /\ UNCHANGED <<position, direction, current_microstep, mode_pins, pulse_count,
                   timer_on, enabled, cartVars, lineVars, op, locals, warned,
                   pos0, level0, stale, pulsed, ticks, tripped, stopped, stopCount>>

\* a move that keeps the count left by the previous move
ResetCountSkipped(o, at, next) ==
    /\ Task(o, at)
    /\ pc' = next
    /\ UNCHANGED <<stepperVars, cartVars, lineVars,
                   op, locals, exc, result, warned, callHist>>

\* self.pulse_count = 0
ResetCount(o, at, next) ==
    /\ Task(o, at)
    /\ pulse_count' = 0 /\ pc' = next
    /\ UNCHANGED <<position, direction, current_microstep, mode_pins,
                   pwm_duty, timer_on, enabled, cartVars, lineVars,
                   op, locals, exc, result, warned, callHist>>

TimerInit(o, at, next) ==
    /\ Task(o, at)
    /\ timer_on' = TRUE /\ pc' = next
    /\ UNCHANGED <<position, direction, current_microstep, mode_pins, pulse_count,
                   pwm_duty, enabled, cartVars, lineVars,
                   op, locals, exc, result, warned, callHist>>

EnableInMove(o, at, next) ==
    /\ Task(o, at)
    /\ enabled' = TRUE /\ pc' = next
    /\ UNCHANGED <<position, direction, current_microstep, mode_pins, pulse_count,
                   pwm_duty, timer_on, cartVars, lineVars,
                   op, locals, exc, result, warned, callHist>>

\* start_time = utime.ticks_ms(), the first statement of the try block
StartClock(o, at, next) ==
    /\ Task(o, at)
    /\ elapsed' = 0 /\ pc' = next
    /\ UNCHANGED <<stepperVars, cartVars, lineVars,
                   op, speed, profile, duration, target, steps, exc, result,
                   warned, callHist>>

\* a loop condition that tests the limit switch only
LoopContinuesSwitchOnly == home_level = 1

\* a loop condition that tests the elapsed time only
LoopContinuesDurationOnly == elapsed < duration

\* while (ticks_diff(ticks_ms(), start_time) < duration_ms) and limit_switch.value()
LoopContinues == elapsed < duration /\ home_level = 1

LoopTest(o, at, body, exit) ==
    /\ Task(o, at)
    /\ pc' = (IF LoopContinues THEN body ELSE exit)
    /\ UNCHANGED <<stepperVars, cartVars, lineVars,
                   op, locals, exc, result, warned, callHist>>

\* a poll that adds the pulses counted so far to the position while the move
\* is still running
SleepMsTracksPosition(o, at, ms, next) ==
    /\ Task(o, at)
    /\ elapsed' = elapsed + ms /\ pc' = next
    /\ position' = position + direction * (Scale \div current_microstep)
    /\ UNCHANGED <<direction, current_microstep, mode_pins, pulse_count,
                   pwm_duty, timer_on, enabled, cartVars, lineVars,
                   op, speed, profile, duration, target, steps, exc, result,
                   warned, callHist>>

SleepMs(o, at, ms, next) ==
    /\ Task(o, at)
    /\ elapsed' = elapsed + ms /\ pc' = next
    /\ UNCHANGED <<stepperVars, cartVars, lineVars,
                   op, speed, profile, duration, target, steps, exc, result,
                   warned, callHist>>

\* except KeyboardInterrupt: print(...)
Except(o, at, next) ==
    /\ Task(o, at)
    /\ pc' = next
    /\ UNCHANGED <<stepperVars, cartVars, lineVars,
                   op, locals, exc, result, warned, callHist>>

\* finally: self.pwm.duty_u16(0)
FinallyDuty(o, at, next) ==
    /\ Task(o, at)
    /\ pwm_duty' = 0 /\ pc' = next
    /\ UNCHANGED <<position, direction, current_microstep, mode_pins, pulse_count,
                   timer_on, enabled, cartVars, lineVars,
                   op, locals, exc, result, warned, callHist>>

\* finally: self.timer.deinit()
FinallyTimer(o, at, next) ==
    /\ Task(o, at)
    /\ timer_on' = FALSE /\ pc' = next
    /\ UNCHANGED <<position, direction, current_microstep, mode_pins, pulse_count,
                   pwm_duty, enabled, cartVars, lineVars,
                   op, locals, exc, result, warned, callHist>>

\* a finally clause that leaves the driver enabled
FinallyDisableSkipped(o, at, next) ==
    /\ Task(o, at)
    /\ IF exc # "none"
       THEN pc' = "ret" /\ result' = Raised(exc)
       ELSE pc' = next /\ UNCHANGED result
    /\ UNCHANGED <<stepperVars, cartVars, lineVars,
                   op, locals, exc, warned, callHist>>

\* finally: self.disable(); a pending exception then leaves the call
FinallyDisable(o, at, next) ==
    /\ Task(o, at)
    /\ enabled' = FALSE
    /\ IF exc # "none"
       THEN pc' = "ret" /\ result' = Raised(exc)
       ELSE pc' = next /\ UNCHANGED result
    /\ UNCHANGED <<position, direction, current_microstep, mode_pins, pulse_count,
                   pwm_duty, timer_on, cartVars, lineVars,
                   op, locals, exc, warned, callHist>>

\* a position update that ignores the direction of travel
UpdatePositionNoDirection(pos, dir, count, microstep) ==
    pos + ActualSteps(count, microstep)

\* actual_steps = pulse_count / current_microstep
\* self.position += self.direction * actual_steps
UpdatePosition(pos, dir, count, microstep) ==
    pos + dir * ActualSteps(count, microstep)

\* return actual_steps
ReturnValue(count, microstep) == ActualSteps(count, microstep)

UpdateAndReturn(o, at) ==
    /\ Task(o, at)
    /\ position' = UpdatePosition(position, direction, pulse_count, current_microstep)
    /\ result' = Ok(ReturnValue(pulse_count, current_microstep))
    /\ pc' = "ret"
    /\ UNCHANGED <<direction, current_microstep, mode_pins, pulse_count,
                   pwm_duty, timer_on, enabled, cartVars, lineVars,
                   op, locals, exc, warned, callHist>>

MoveForTime ==
    \/ SetSpeed("move_for_time", "mft_80", "mft_83", "ret", FALSE)
    \/ ResetCount("move_for_time", "mft_83", "mft_84")
    \/ TimerInit("move_for_time", "mft_84", "mft_86")
    \/ EnableInMove("move_for_time", "mft_86", "mft_90")
    \/ StartClock("move_for_time", "mft_90", "mft_91")
    \/ LoopTest("move_for_time", "mft_91", "mft_92", "mft_97")
    \/ SleepMs("move_for_time", "mft_92", PollMs, "mft_91")
    \/ Except("move_for_time", "mft_93", "mft_97")
    \/ FinallyDuty("move_for_time", "mft_97", "mft_98")
    \/ FinallyTimer("move_for_time", "mft_98", "mft_99")
    \/ FinallyDisable("move_for_time", "mft_99", "mft_102")
    \/ UpdateAndReturn("move_for_time", "mft_102")

CallMoveWithVariableSpeed ==
    /\ Begin("move_with_variable_speed") /\ InRange
    /\ \E d \in Directions, p \in Profiles, t \in Durations(ProfilePollMs), m \in MicrostepArgs :
         /\ profile' = p /\ duration' = t
         /\ MoveEntry(d, m, "mvs_114")
    /\ UNCHANGED <<position, pulse_count, pwm_duty, timer_on, enabled,
                   cartVars, lineVars, speed, elapsed, target, steps>>

\* elapsed_time = ticks_diff(...); current_speed = speed_profile(elapsed_time, duration_ms)
Sample(o, at, next) ==
    /\ Task(o, at)
    /\ speed' = SampleProfile(profile, elapsed, duration) /\ pc' = next
    /\ UNCHANGED <<stepperVars, cartVars, lineVars,
                   op, profile, duration, elapsed, target, steps, exc, result,
                   warned, callHist>>

MoveWithVariableSpeed ==
    \/ ResetCount("move_with_variable_speed", "mvs_114", "mvs_115")
    \/ TimerInit("move_with_variable_speed", "mvs_115", "mvs_117")
    \/ EnableInMove("move_with_variable_speed", "mvs_117", "mvs_120")
    \/ StartClock("move_with_variable_speed", "mvs_120", "mvs_121")
    \/ LoopTest("move_with_variable_speed", "mvs_121", "mvs_123", "mvs_130")
    \/ Sample("move_with_variable_speed", "mvs_123", "mvs_124")
    \/ SetSpeed("move_with_variable_speed", "mvs_124", "mvs_125", "mvs_130", TRUE)
    \/ SleepMs("move_with_variable_speed", "mvs_125", ProfilePollMs, "mvs_121")
    \/ Except("move_with_variable_speed", "mvs_126", "mvs_130")
    \/ FinallyDuty("move_with_variable_speed", "mvs_130", "mvs_131")
    \/ FinallyTimer("move_with_variable_speed", "mvs_131", "mvs_132")
    \/ FinallyDisable("move_with_variable_speed", "mvs_132", "mvs_135")
    \/ UpdateAndReturn("move_with_variable_speed", "mvs_135")

\* KeyboardInterrupt. MicroPython raises a pending exception where the VM
\* polls for one: at the jumps of a loop and inside sleep_ms. In the moves
\* these are the statements of the try block, whose except clause catches it,
\* and the divisor loop of _set_speed, which in move_for_time runs before
\* the try block and before the PWM is written
TryBody == {"mft_90", "mft_91", "mft_92",
            "mvs_120", "mvs_121", "mvs_123", "mvs_124", "mvs_125"}
ExceptOf(o) == IF o = "move_for_time" THEN "mft_93" ELSE "mvs_126"

KeyboardInterrupt ==
    /\ op \in {"move_for_time", "move_with_variable_speed"}
    /\ pc \in TryBody \cup {"mft_80"} /\ ~EdgePending
    /\ IF pc \in TryBody
       THEN pc' = ExceptOf(op) /\ UNCHANGED result
       ELSE pc' = "ret" /\ result' = Raised("KeyboardInterrupt")
    /\ UNCHANGED <<stepperVars, cartVars, lineVars, op, locals, exc, warned,
                   callHist, prev, servoVars, clockVars>>

\* ------------------------------------------- StepperMotor (cart's axis)
\* emergency_stop(): the shared stop primitive
emergency_stop == stop_motor

\* step_left() / step_right(): one pulse with the driver enabled; the
\* position moves by one pulse at the current microstep resolution
SingleStep(d) ==
    /\ direction' = set_direction(d)
    /\ enabled' = TRUE
    /\ phys' = Clamp(phys + set_direction(d))
    /\ position' = UpdatePosition(position, set_direction(d), 1, current_microstep)
    /\ pulsed' = TRUE

\* reset_position()
reset_position == 0

\* move_to_position(target): the requested pulse count from target - position
RequestedPulses(pos, tgt, microstep) ==
    LET delta == tgt - pos
        dist == IF delta < 0 THEN -delta ELSE delta
    IN  (dist * microstep) \div Scale

MtpBegin ==
    /\ Task("move_to_position", "mtp_begin")
    /\ direction' = set_direction(target - position)
    /\ steps' = RequestedPulses(position, target, current_microstep)
    /\ pulse_count' = 0
    /\ enabled' = TRUE
    /\ pc' = "mtp_poll"
    /\ UNCHANGED <<position, current_microstep, mode_pins, pwm_duty, timer_on,
                   cartVars, lineVars, op, speed, profile, duration, elapsed, target,
                   exc, result, warned, callHist>>

\* the cancellation checkpoint before each pulse
MtpPoll ==
    /\ Task("move_to_position", "mtp_poll")
    /\ pc' = (IF pulse_count < steps /\ ~switch_activated THEN "mtp_step" ELSE "mtp_stop")
    /\ UNCHANGED <<stepperVars, cartVars, lineVars, op, locals, exc, result,
                   warned, callHist>>

\* one counted pulse; the carriage moves when the driver is enabled
MtpStep ==
    /\ Task("move_to_position", "mtp_step")
    /\ pulse_count' = pulse_count + 1
    /\ phys' = (IF enabled THEN Clamp(phys + direction) ELSE phys)
    /\ pulsed' = TRUE
    /\ pc' = "mtp_poll"
    /\ UNCHANGED <<position, direction, current_microstep, mode_pins,
                   pwm_duty, timer_on, enabled, cartVars, home_level, end_level,
                   op, locals, exc, result, warned,
                   pos0, level0, stale, armed, ticks, tripped, stopped, stopCount>>

\* teardown, position update and return as in the timed moves
MtpStop ==
    /\ Task("move_to_position", "mtp_stop")
    /\ stop_motor
    /\ position' = UpdatePosition(position, direction, pulse_count, current_microstep)
    /\ result' = Ok(ReturnValue(pulse_count, current_microstep))
    /\ pc' = "m_66"
    /\ UNCHANGED <<direction, current_microstep, mode_pins, pulse_count,
                   cartVars, lineVars, op, locals, exc, warned, callHist>>

\* ------------------------------------------------------- CumbiatronCart
\* a handler that stops the axis without raising the flag
switch_handler_no_flag(level) ==
    IF ~is_homing /\ level = 0
    THEN /\ emergency_stop
         /\ UNCHANGED switch_activated
    ELSE UNCHANGED <<pwm_duty, timer_on, enabled, switch_activated>>

\* a handler that ignores the homing guard
switch_handler_unguarded(level) ==
    IF level = 0
    THEN /\ emergency_stop
         /\ switch_activated' = TRUE
    ELSE UNCHANGED <<pwm_duty, timer_on, enabled, switch_activated>>

\* a handler that raises the flag without stopping the axis
switch_handler_no_stop(level) ==
    IF ~is_homing /\ level = 0
    THEN /\ switch_activated' = TRUE
         /\ UNCHANGED <<pwm_duty, timer_on, enabled>>
    ELSE UNCHANGED <<pwm_duty, timer_on, enabled, switch_activated>>

\* switch_handler(pin), with pin.value() = level
switch_handler(level) ==
    IF ~is_homing /\ level = 0
    THEN /\ emergency_stop
         /\ switch_activated' = TRUE
    ELSE UNCHANGED <<pwm_duty, timer_on, enabled, switch_activated>>

\* the statements during which a move has the axis energised and is stepping
MoveActive == pc \in {"mtp_poll", "mtp_step"} \cup TryBody

\* an edge on a switch line: the pin changes and its handler runs
Edge(sw, level) ==
    LET fires == ~is_homing /\ level = 0
        first == fires /\ MoveActive /\ stopped = "no"
    IN
    /\ switch_handler(level)
    /\ tripped' = (tripped \/ (fires /\ op = "move_to_position" /\ pc # "ret"))
    /\ stopped' = (IF first THEN sw ELSE stopped)
    /\ stopCount' = (IF first /\ op = "move_to_position" THEN pulse_count ELSE stopCount)
    /\ UNCHANGED <<position, direction, current_microstep, mode_pins, pulse_count,
                   is_homing, phys, taskVars, warned, pos0, level0, stale, armed, pulsed, ticks, prev,
                   servoVars, clockVars>>

HomeEdge ==
    /\ EdgePending
    /\ home_level' = HomeRead(phys)
    /\ Edge("home", HomeRead(phys))
    /\ UNCHANGED end_level

EndEdge ==
    /\ end_level' = 1 - end_level
    /\ Edge("end", 1 - end_level)
    /\ UNCHANGED home_level

\* home()
HomeFrame == UNCHANGED <<current_microstep, mode_pins, pulse_count, pwm_duty, timer_on,
                         switch_activated, home_level, end_level,
                         op, locals, exc, result, warned,
                         pos0, level0, stale, armed, ticks, tripped, stopped, stopCount>>

CallHome ==
    /\ Begin("home")
    /\ pc' = "h_38"
    /\ UNCHANGED <<stepperVars, cartVars, lineVars, locals, result>>

HomeGuard ==
    /\ Task("home", "h_38")
    /\ is_homing' = TRUE /\ pc' = "h_39"
    /\ UNCHANGED <<stepperVars, switch_activated, lineVars, op, locals, exc, result,
                   warned, callHist>>

HomeClear ==
    /\ Task("home", "h_39")
    /\ switch_activated' = FALSE /\ tripped' = FALSE /\ pc' = "h_42"
    /\ UNCHANGED <<stepperVars, is_homing, lineVars, op, locals, exc, result, warned,
                   pos0, level0, stale, armed, pulsed, ticks, stopped, stopCount>>

\* a loop that runs its body while the switch reads the other level
HomeLoopTestInverted(at, want, body, exit) ==
    /\ Task("home", at)
    /\ pc' = (IF home_level # want THEN body ELSE exit)
    /\ UNCHANGED <<stepperVars, cartVars, lineVars, op, locals, exc, result,
                   warned, callHist>>

\* while self.home_switch.value() == want: step(d); await sleep_ms(1)
HomeLoopTest(at, want, body, exit) ==
    /\ Task("home", at)
    /\ pc' = (IF home_level = want THEN body ELSE exit)
    /\ UNCHANGED <<stepperVars, cartVars, lineVars, op, locals, exc, result,
                   warned, callHist>>

HomeLoopStep(at, d, back) ==
    /\ Task("home", at)
    /\ SingleStep(d)
    /\ pc' = back
    /\ UNCHANGED is_homing
    /\ HomeFrame

HomeReset ==
    /\ Task("home", "h_56")
    /\ position' = reset_position /\ pc' = "h_57"
    /\ UNCHANGED <<direction, current_microstep, mode_pins, pulse_count, pwm_duty,
                   timer_on, enabled, cartVars, lineVars, op, locals, exc, result,
                   warned, callHist>>

\* a homing routine that returns with the guard still set
HomeDoneGuardLeft ==
    /\ Task("home", "h_57")
    /\ pc' = "ret" /\ result' = Ok(0)
    /\ UNCHANGED <<stepperVars, cartVars, lineVars, op, locals, exc,
                   warned, callHist>>

\* self.stepper.reset_position() is followed by self.is_homing = False
HomeDone ==
    /\ Task("home", "h_57")
    /\ is_homing' = FALSE /\ pc' = "ret" /\ result' = Ok(0)
    /\ UNCHANGED <<stepperVars, switch_activated, lineVars, op, locals, exc,
                   warned, callHist>>

Home ==
    \/ HomeGuard
    \/ HomeClear
    \/ HomeLoopTest("h_42", 1, "h_43", "h_47")
    \/ HomeLoopStep("h_43", -1, "h_42")
    \/ HomeLoopTest("h_47", 0, "h_48", "h_52")
    \/ HomeLoopStep("h_48", 1, "h_47")
    \/ HomeLoopTest("h_52", 1, "h_53", "h_56")
    \/ HomeLoopStep("h_53", -1, "h_52")
    \/ HomeReset
    \/ HomeDone

\* move_to_position(position)
CallMoveToPosition ==
    /\ Begin("move_to_position") /\ InRange
    /\ \E t \in TargetPositions : target' = t
    /\ pc' = "m_64"
    /\ UNCHANGED <<stepperVars, cartVars, lineVars,
                   speed, profile, duration, elapsed, steps, result>>

\* a positioned move that starts without clearing the flag
CartClearSkipped ==
    /\ Task("move_to_position", "m_64")
    /\ tripped' = FALSE /\ pc' = "mtp_begin"
    /\ UNCHANGED <<stepperVars, cartVars, lineVars, op, locals, exc, result, warned,
                   pos0, level0, stale, armed, pulsed, ticks, stopped, stopCount>>

\* self.switch_activated.clear()
CartClear ==
    /\ Task("move_to_position", "m_64")
    /\ switch_activated' = FALSE /\ tripped' = FALSE /\ pc' = "mtp_begin"
    /\ UNCHANGED <<stepperVars, is_homing, lineVars, op, locals, exc, result, warned,
                   pos0, level0, stale, armed, pulsed, ticks, stopped, stopCount>>

\* if self.switch_activated.is_set(): print("Warning: ...")
CartInspect ==
    /\ Task("move_to_position", "m_66")
    /\ warned' = switch_activated /\ pc' = "ret"
    /\ UNCHANGED <<stepperVars, cartVars, lineVars, op, locals, exc, result, callHist>>

MoveToPosition ==
    \/ CartClear
    \/ MtpBegin
    \/ MtpPoll
    \/ MtpStep
    \/ MtpStop
    \/ CartInspect

\* the call has returned (or raised); the task is idle again
Return ==
    /\ pc = "ret" /\ ~EdgePending
    /\ pc' = "idle" /\ op' = "none"
    /\ speed' = 0 /\ profile' = <<0, 0>> /\ duration' = 0 /\ elapsed' = 0
    /\ target' = 0 /\ steps' = 0 /\ exc' = "none" /\ result' = NoResult
    /\ pos0' = 0 /\ level0' = 1 /\ stale' = FALSE /\ armed' = FALSE /\ pulsed' = FALSE /\ ticks' = 0
    /\ tripped' = FALSE /\ stopped' = "no" /\ stopCount' = 0
    /\ warned' = FALSE
    /\ prev' = (IF op = "move_to_position" /\ ~tripped /\ result.kind = "ok"
                THEN [ok |-> TRUE, from |-> pos0, to |-> target]
                ELSE NoPrev)
    /\ UNCHANGED <<stepperVars, cartVars, lineVars, servoVars, clockVars>>

\* ------------------------------------------------------------ hardware
\* Timer callback _pulse_counter
PulseCounter ==
    /\ timer_on /\ pulse_count < MaxPulses /\ ~EdgePending
    /\ pulse_count' = pulse_count + 1
    /\ ticks' = ticks + 1
    /\ UNCHANGED <<position, direction, current_microstep, mode_pins,
                   pwm_duty, timer_on, enabled, cartVars, lineVars, taskVars,
                   warned, pos0, level0, stale, armed, pulsed, tripped, stopped, stopCount, prev,
                   servoVars, clockVars>>

\* one pulse on the step line; the carriage moves when the driver is enabled
PwmPulse ==
    /\ pwm_duty > 0 /\ ~EdgePending
    /\ phys' = (IF enabled THEN Clamp(phys + direction) ELSE phys)
    /\ pulsed' = (pulsed \/ armed)
    /\ UNCHANGED <<stepperVars, cartVars, home_level, end_level, taskVars, warned,
                   pos0, level0, stale, armed, ticks, tripped, stopped, stopCount, prev,
                   servoVars, clockVars>>

\* ---------------------------------------------------------------- Servo
MinAngle == 60
MaxAngle == 120
ServoOffset == 0

\* adjusted_angle = max(self.min_angle, min(self.max_angle, angle - self.offset))
AdjustedAngle(angle) ==
    LET a == angle - ServoOffset
        lo == IF a < MaxAngle THEN a ELSE MaxAngle
    IN  IF lo > MinAngle THEN lo ELSE MinAngle

\* set_angle(angle) up to its await: the angle is recorded and the PWM driven
set_angle_command(i, angle) ==
    /\ current_angle' = [current_angle EXCEPT ![i] = angle]
    /\ servo_drive' = [servo_drive EXCEPT ![i] = AdjustedAngle(angle)]

\* set_angle after asyncio.sleep_ms(30): self.disable()
set_angle_settled(i) ==
    servo_drive' = [servo_drive EXCEPT ![i] = 0]

\* ------------------------------------------- CumbiatronCart: the notes
\* the indices a caller passes: below, inside (one servo of each
\* orientation) and above the valid range
IndexArgs == {-1, 0, 4, NumServos, NumServos + 1}

\* a range check that forgets the negative indices
ValidIndexUpperOnly(i) == i < NumServos

\* if servo_index < 0 or servo_index >= len(self.servos): raise ValueError
ValidIndex(i) == ~(i < 0 \/ i >= NumServos)

\* list indexing: a negative index counts from the end
Index(i) == IF i < 0 THEN i + NumServos ELSE i

Side(l) == IF l THEN "left" ELSE "right"

\* lines 77-82: the engagement the note asks for, and its angle
target_state(i, l) ==
    IF (l /\ servo_orientations[i] = 1) \/ (~l /\ servo_orientations[i] = -1)
    THEN -1 ELSE 1
NoteAngle(ts) == IF ts = -1 THEN -45 ELSE 45

Running(t, o, at) == stask[t].op = o /\ stask[t].pc = at
NoteFrame == UNCHANGED <<axisVars, clockVars>>
NoteRaise(t, o, i) ==
    /\ stask' = [stask EXCEPT ![t] = [IdleTask EXCEPT !.op = o, !.pc = "ret",
                                                      !.arg = i, !.raised = TRUE]]
    /\ UNCHANGED <<servo_states, current_angle, servo_drive, lastPlay>>

\* play_note(servo_index, is_left_note) up to its await or its return
CallPlayNote(t) ==
    /\ Running(t, "none", "idle")
    /\ \E i \in IndexArgs, l \in BOOLEAN :
         IF ~ValidIndex(i)
         THEN NoteRaise(t, "play_note", i)
         ELSE LET k == Index(i)
                  ts == target_state(k, l)
                  skip == servo_states[k] = ts
              IN  /\ stask' = [stask EXCEPT ![t] =
                         [IdleTask EXCEPT !.op = "play_note", !.arg = i, !.idx = k, !.left = l,
                                          !.pc = IF skip THEN "ret" ELSE "p_86",
                                          !.issued = IF skip THEN 0 ELSE 1,
                                          !.st0 = servo_states[k],
                                          !.rep = (lastPlay[k] = Side(l))]]
                  /\ IF skip
                     THEN /\ UNCHANGED <<current_angle, servo_drive>>
                          /\ lastPlay' = [lastPlay EXCEPT ![k] = Side(l)]
                     ELSE /\ set_angle_command(k, NoteAngle(ts))
                          /\ lastPlay' = [lastPlay EXCEPT ![k] = "none"]
                  /\ UNCHANGED servo_states
    /\ NoteFrame

\* a play_note that does not record the engagement it has commanded
PlayNoteSettledUnrecorded(t) ==
    /\ Running(t, "play_note", "p_86")
    /\ set_angle_settled(stask[t].idx)
    /\ lastPlay' = [lastPlay EXCEPT ![stask[t].idx] = Side(stask[t].left)]
    /\ stask' = [stask EXCEPT ![t].pc = "ret"]
    /\ UNCHANGED <<servo_states, current_angle>>
    /\ NoteFrame

\* set_angle returns; self.servo_states[servo_index] = target_state
PlayNoteSettled(t) ==
    /\ Running(t, "play_note", "p_86")
    /\ LET k == stask[t].idx IN
         /\ set_angle_settled(k)
         /\ servo_states' = [servo_states EXCEPT ![k] = target_state(k, stask[t].left)]
         /\ lastPlay' = [lastPlay EXCEPT ![k] = Side(stask[t].left)]
    /\ stask' = [stask EXCEPT ![t].pc = "ret", ![t].wrote = TRUE]
    /\ UNCHANGED current_angle
    /\ NoteFrame

\* release_note(servo_index) up to its await or its return
CallReleaseNote(t) ==
    /\ Running(t, "none", "idle")
    /\ \E i \in IndexArgs :
         IF ~ValidIndex(i)
         THEN NoteRaise(t, "release_note", i)
         ELSE LET k == Index(i)
                  skip == servo_states[k] = 0
              IN  /\ stask' = [stask EXCEPT ![t] =
                         [IdleTask EXCEPT !.op = "release_note", !.arg = i, !.idx = k,
                                          !.pc = IF skip THEN "ret" ELSE "r_94",
                                          !.issued = IF skip THEN 0 ELSE 1,
                                          !.st0 = servo_states[k]]]
                  /\ IF skip
                     THEN UNCHANGED <<current_angle, servo_drive>>
                     ELSE set_angle_command(k, NeutralAngle)
                  /\ lastPlay' = [lastPlay EXCEPT ![k] = "none"]
                  /\ UNCHANGED servo_states
    /\ NoteFrame

\* a release_note that marks every actuator centered
ReleaseNoteSettledClearsAll(t) ==
    /\ Running(t, "release_note", "r_94")
    /\ set_angle_settled(stask[t].idx)
    /\ servo_states' = [i \in Servos |-> 0]
    /\ lastPlay' = [lastPlay EXCEPT ![stask[t].idx] = "none"]
    /\ stask' = [stask EXCEPT ![t].pc = "ret", ![t].wrote = TRUE]
    /\ UNCHANGED current_angle
    /\ NoteFrame

\* center() returns; self.servo_states[servo_index] = 0
ReleaseNoteSettled(t) ==
    /\ Running(t, "release_note", "r_94")
    /\ LET k == stask[t].idx IN
         /\ set_angle_settled(k)
         /\ servo_states' = [servo_states EXCEPT ![k] = 0]
         /\ lastPlay' = [lastPlay EXCEPT ![k] = "none"]
    /\ stask' = [stask EXCEPT ![t].pc = "ret", ![t].wrote = TRUE]
    /\ UNCHANGED current_angle
    /\ NoteFrame

\* center_all_servos(): gather starts center() on every servo, each up to
\* its await; the servos are commanded back to back
CallCenterAll(t) ==
    /\ Running(t, "none", "idle")
    /\ current_angle' = [i \in Servos |-> NeutralAngle]
    /\ servo_drive' = [i \in Servos |-> AdjustedAngle(NeutralAngle)]
    /\ lastPlay' = [i \in Servos |-> "none"]
    /\ stask' = [stask EXCEPT ![t] =
           [IdleTask EXCEPT !.op = "center_all_servos", !.pc = "c_60",
                            !.issued = NumServos]]
    /\ UNCHANGED servo_states
    /\ NoteFrame

\* the 30 ms have passed: every center() disables its PWM and gather is done
CenterAllSettled(t) ==
    /\ Running(t, "center_all_servos", "c_60")
    /\ servo_drive' = [i \in Servos |-> 0]
    /\ lastPlay' = [i \in Servos |-> "none"]
    /\ stask' = [stask EXCEPT ![t].pc = "c_61"]
    /\ UNCHANGED <<servo_states, current_angle>>
    /\ NoteFrame

\* self.servo_states = [0] * 7
CenterAllDone(t) ==
    /\ Running(t, "center_all_servos", "c_61")
    /\ servo_states' = [i \in Servos |-> 0]
    /\ lastPlay' = [i \in Servos |-> "none"]
    /\ stask' = [stask EXCEPT ![t].pc = "ret", ![t].wrote = TRUE]
    /\ UNCHANGED <<current_angle, servo_drive>>
    /\ NoteFrame

\* ----------------------------------------------------- MusicInterpreter
\* _create_note_mapping(): note -> (position, servo_index)
note_mapping ==
    (60 :> <<0, 0>>) @@ (62 :> <<100, 0>>) @@ (64 :> <<200, 1>>) @@
    (65 :> <<300, 1>>) @@ (67 :> <<400, 2>>) @@ (69 :> <<500, 2>>) @@
    (71 :> <<600, 3>>) @@ (72 :> <<700, 3>>)
\* a mapped and an unmapped note
Notes == {60, 61}

\* _release_note(note) up to its await or its return
CallInterpreterRelease(t) ==
    /\ Running(t, "none", "idle")
    /\ \E n \in Notes :
         IF n \in DOMAIN note_mapping
         THEN LET k == note_mapping[n][2] IN
              /\ set_angle_command(k, NeutralAngle)
              /\ lastPlay' = [lastPlay EXCEPT ![k] = "none"]
              /\ stask' = [stask EXCEPT ![t] =
                     [IdleTask EXCEPT !.op = "_release_note", !.idx = k,
                                      !.pc = "t_46", !.issued = 1,
                                      !.st0 = servo_states[k]]]
         ELSE /\ stask' = [stask EXCEPT ![t] =
                     [IdleTask EXCEPT !.op = "_release_note", !.pc = "ret"]]
              /\ UNCHANGED <<current_angle, servo_drive, lastPlay>>
    /\ UNCHANGED servo_states
    /\ NoteFrame

\* set_angle(90) returns; print(...)
InterpreterReleaseSettled(t) ==
    /\ Running(t, "_release_note", "t_46")
    /\ set_angle_settled(stask[t].idx)
    /\ lastPlay' = [lastPlay EXCEPT ![stask[t].idx] = "none"]
    /\ stask' = [stask EXCEPT ![t].pc = "ret"]
    /\ UNCHANGED <<servo_states, current_angle>>
    /\ NoteFrame

\* the coroutine's call has returned or raised
NoteReturn(t) ==
    /\ stask[t].pc = "ret"
    /\ stask' = [stask EXCEPT ![t] = IdleTask]
    /\ UNCHANGED <<servo_states, current_angle, servo_drive, lastPlay>>
    /\ NoteFrame

PlayNote == \E t \in Coroutines : CallPlayNote(t) \/ PlayNoteSettled(t)
ReleaseNote == \E t \in Coroutines : CallReleaseNote(t) \/ ReleaseNoteSettled(t)
CenterAllServos ==
    \E t \in Coroutines : CallCenterAll(t) \/ CenterAllSettled(t) \/ CenterAllDone(t)
InterpreterRelease ==
    \E t \in Coroutines : CallInterpreterRelease(t) \/ InterpreterReleaseSettled(t)
NoteReturns == \E t \in Coroutines : NoteReturn(t)

\* --------------------------------------------------------------- Spec
\* the cart: the orchestrator's operations on its axis, the switch interrupts
CartTask ==
    \/ SetMicrostepMode
    \/ Enable
    \/ Disable
    \/ CallHome
    \/ Home
    \/ CallMoveToPosition
    \/ MoveToPosition
    \/ Return

Next ==
    \/ CartTask
    \/ HomeEdge
    \/ EndEdge

Spec == Init /\ [][Next]_vars

\* the task is scheduled, and a switch delivers the edge the carriage causes
FairSpec == Spec /\ WF_vars(CartTask) /\ WF_vars(HomeEdge)

\* the stepper driver's timed moves under the same interlock
StepperTask ==
    \/ SetMicrostepMode
    \/ Enable
    \/ Disable
    \/ CallMoveForTime
    \/ MoveForTime
    \/ CallMoveWithVariableSpeed
    \/ MoveWithVariableSpeed
    \/ Return

StepperNext ==
    \/ StepperTask
    \/ KeyboardInterrupt
    \/ HomeEdge
    \/ EndEdge
    \/ PulseCounter
    \/ PwmPulse

StepperSpec == Init /\ [][StepperNext]_vars

\* one timed move of a newly constructed driver, from its call to its return
MoveTask ==
    \/ CallMoveForTime
    \/ MoveForTime
    \/ CallMoveWithVariableSpeed
    \/ MoveWithVariableSpeed

OneMoveNext ==
    \/ MoveTask
    \/ KeyboardInterrupt
    \/ HomeEdge
    \/ EndEdge
    \/ PulseCounter
    \/ PwmPulse

OneMoveSpec == Init /\ [][OneMoveNext]_vars

\* the task keeps executing its statements (a move blocks the only task),
\* and a switch delivers the edge the carriage causes; nothing obliges a
\* KeyboardInterrupt, a timer callback or a pulse to happen
OneMoveFairSpec == OneMoveSpec /\ WF_vars(MoveTask) /\ WF_vars(HomeEdge)

\* the note operations of the cart and of the interpreter, run by coroutines
\* that interleave at the servos' settle delays
ServoNext ==
    \/ PlayNote
    \/ ReleaseNote
    \/ CenterAllServos
    \/ InterpreterRelease
    \/ NoteReturns

\* the axis plays no part: it rests on the home switch with the driver off
ServoInit == Init /\ phys = 0 /\ ~enabled

ServoSpec == ServoInit /\ [][ServoNext]_vars


\* ------------------------------------------------- the timer parameters
\* _set_speed up to its range decision, for a requested speed and each
\* microstep mode the driver can be in
CalculatePwmParameters ==
    \E sps \in SpsArgs, m \in MICROSTEP_MODES :
        /\ req_sps' = sps /\ req_microstep' = m
        /\ pwm_params' = calculate_pwm_parameters(AdjustedFreq(sps, m))
        /\ UNCHANGED <<axisVars, servoVars>>

TimerSpec == ServoInit /\ [][CalculatePwmParameters]_vars


\* ------------------------------------- set_microstep_mode during a move
\* the statements of a timed move, from its first to its last
MoveInProgress ==
    /\ op \in {"move_for_time", "move_with_variable_speed"}
    /\ pc \notin {"idle", "ret"}

\* set_microstep_mode(microstep) called from a callback (a Timer or Pin
\* handler of the application) while the task is inside a timed move: the
\* method tests the value only, then writes the mode lines and the field
SetMicrostepModeInMove ==
    /\ MoveInProgress /\ ~EdgePending
    /\ \E m \in MicrostepArgs \ {NoneArg} :
         IF m \notin MICROSTEP_MODES
         THEN UNCHANGED <<current_microstep, mode_pins>>
         ELSE /\ mode_pins' = ModePins(m)
              /\ current_microstep' = m
    /\ UNCHANGED <<position, direction, pulse_count, pwm_duty, timer_on, enabled,
                   cartVars, lineVars, taskVars, warned, histVars,
                   servoVars, clockVars>>

BusyNext ==
    \/ StepperNext
    \/ SetMicrostepModeInMove

BusySpec == Init /\ [][BusyNext]_vars


\* --------------------------------------------- a homing run cancelled
\* home() runs as a uasyncio task; task.cancel() raises CancelledError in it
\* at the await it is suspended on, the sleep_ms(1) that follows each step
\* (lines 44, 49, 54); home() has no except or finally clause, so the
\* exception leaves the call from there
HomeCancelled ==
    \E at \in {"h_43", "h_48", "h_53"} :
        /\ Task("home", at)
        /\ SingleStep(IF at = "h_48" THEN 1 ELSE -1)
        /\ pc' = "ret" /\ result' = Raised("CancelledError")
        /\ UNCHANGED <<current_microstep, mode_pins, pulse_count, pwm_duty,
                       timer_on, cartVars, home_level, end_level,
                       op, locals, exc, warned,
                       pos0, level0, stale, armed, ticks, tripped, stopped, stopCount>>

\* homing runs of the cart, completed or cancelled, and the switch interrupts
CancelNext ==
    \/ CallHome
    \/ Home
    \/ HomeCancelled
    \/ Return
    \/ HomeEdge
    \/ EndEdge

CancelSpec == Init /\ [][CancelNext]_vars


\* ============================================================ properties
\* a step in which a switch line changes level, i.e. one run of the handler
HomeEdgeStep == home_level' # home_level
EndEdgeStep == end_level' # end_level

\* C1: whenever either switch's handler runs with the homing guard clear and
\* the switch reading triggered, the driver is disabled and the activation
\* flag is set when the handler returns, whether or not a move is running;
\* when the switch reads not triggered the handler changes neither
C1_HandlerStopsAndFlags ==
    [][ /\ (HomeEdgeStep /\ ~is_homing /\ home_level' = 0)
           => (~enabled' /\ switch_activated' /\ pwm_duty' = 0 /\ ~timer_on')
        /\ (EndEdgeStep /\ ~is_homing /\ end_level' = 0)
           => (~enabled' /\ switch_activated' /\ pwm_duty' = 0 /\ ~timer_on')
        /\ (HomeEdgeStep /\ home_level' = 1)
           => UNCHANGED <<enabled, switch_activated, pwm_duty, timer_on>>
        /\ (EndEdgeStep /\ end_level' = 1)
           => UNCHANGED <<enabled, switch_activated, pwm_duty, timer_on>>
      ]_vars

\* the End switch has stopped a positioned move that was stepping, and the
\* handler has left the driver disabled and the flag set
C1_Witness ==
    /\ op = "move_to_position" /\ pc = "mtp_step"
    /\ stopped = "end" /\ end_level = 0
    /\ ~enabled /\ switch_activated

\* C2: while the homing guard is set, a trigger on either switch neither
\* disables the driver nor sets the activation flag
C2_GuardSuppresses ==
    [][ (is_homing /\ (HomeEdgeStep \/ EndEdgeStep))
           => UNCHANGED <<enabled, switch_activated, pwm_duty, timer_on>>
      ]_vars

\* homing has stepped the carriage onto the home switch, the switch has
\* delivered its trigger, and the axis is still enabled with the flag clear
C2_Witness ==
    /\ op = "home" /\ pc = "h_42" /\ is_homing
    /\ pulsed /\ home_level = 0 /\ ~EdgePending
    /\ enabled /\ ~switch_activated


\* a positioned move, its requested distance in position units, and the
\* moment it has returned to the cart's caller
CartMove == op = "move_to_position"
CartMoveDone == CartMove /\ pc = "ret"
Requested == steps * Scale

TimedMove == op \in {"move_for_time", "move_with_variable_speed"}
AtPoll == pc \in {"mft_91", "mvs_121"}
LoopExit == {"mft_93", "mft_97", "mvs_126", "mvs_130"}

\* C4: once the emergency stop has acted during a move, the driver stays
\* disabled, the counter no longer advances, the carriage no longer moves,
\* and the move's next cancellation poll leaves the loop
C4_StopEndsMoveAtNextPoll ==
    [][ (TimedMove /\ stopped # "no" /\ pc # "ret")
           => /\ ~enabled'
              /\ pulse_count' = pulse_count
              /\ phys' = phys
              /\ (AtPoll /\ pc' # pc) => pc' \in LoopExit
      ]_vars

\* C5: homing started from any switch reading and any position returns,
\* and when it has returned the position is 0 and the homing guard is clear
C5_HomingTerminates ==
    /\ [](op = "home" /\ pc = "ret" => position = 0 /\ ~is_homing)
    /\ (op = "home" /\ pc = "h_38")
         ~> (op = "home" /\ pc = "ret" /\ position = 0 /\ ~is_homing)

\* homing has returned after starting away from position 0, having stepped
C5_Witness ==
    /\ op = "home" /\ pc = "ret"
    /\ pos0 # 0 /\ pulsed /\ position = 0 /\ ~is_homing

\* C8: the cart's positioned move clears the activation flag before the
\* axis move starts, never raises on a switch trigger, and warns on return
\* exactly when a handler set the flag after that clear
C8_WarnsIffTripped ==
    /\ (CartMove /\ pc \in {"mtp_begin", "mtp_poll", "mtp_step", "mtp_stop", "m_66"})
         => (switch_activated <=> tripped)
    /\ CartMoveDone
         => /\ result.kind = "ok"
            /\ warned <=> tripped

\* a flag left set by an earlier trigger was cleared: the move ran to its
\* target and returned without a warning
C8_Witness ==
    /\ CartMoveDone /\ stale /\ ~tripped /\ ~warned
    /\ steps > 0 /\ pulse_count = steps

\* the distance from a to b is a whole number of pulses at resolution m
WholePulses(a, b, m) == ((b - a) * m) % Scale = 0

TimedMoveDone == TimedMove /\ pc = "ret"
Quiescent == pwm_duty = 0 /\ ~timer_on /\ ~enabled
\* the exits taken after the call has enabled the driver: a normal return
\* (duration elapsed, limit switch, KeyboardInterrupt caught in the loop)
\* and a frequency error raised by a profile sample
ExitAfterEnable ==
    \/ result.kind = "ok"
    \/ op = "move_with_variable_speed" /\ result.kind = "ValueError(frequency)"

\* C6 (as stated): on every exit path of a timed move, an error raised at
\* any point inside the call included, the state after the call has PWM
\* duty 0, the pulse-count timer stopped and the driver disabled
C6_EveryExitQuiescent == TimedMoveDone => Quiescent

\* C6: on every exit path of a timed move taken after the call has enabled
\* the driver (duration elapsed, limit switch, KeyboardInterrupt in the
\* loop, frequency error of a profile sample), the state after the call has
\* PWM duty 0, the pulse-count timer stopped and the driver disabled
C6_ExitAfterEnableQuiescent == (TimedMoveDone /\ ExitAfterEnable) => Quiescent

\* a profile move that pulsed and then failed on a later sample has been
\* torn down
C6_Witness ==
    /\ op = "move_with_variable_speed" /\ pc = "ret"
    /\ result.kind = "ValueError(frequency)" /\ pulsed
    /\ Quiescent

\* C7: whenever a timed move fails with the frequency error, that call has
\* emitted no pulse and the position is what it was before the call, also
\* when the profile yields the unachievable frequency at a later sample
C7_FrequencyErrorBeforeAnyPulse ==
    (TimedMoveDone /\ result.kind = "ValueError(frequency)")
        => (~pulsed /\ position = pos0)

\* C10 (as stated): a timed move returns the number of pulses its timer
\* callback counted during the move, and the position changes by exactly
\* direction * countedPulses / microstepResolution
C10_ReturnsCountedPulses ==
    (TimedMoveDone /\ result.kind = "ok")
        => /\ result.val = ticks * Scale
           /\ (position - pos0) * current_microstep = direction * ticks * Scale

\* C10: a timed move, completed or aborted, constant-rate or profile,
\* returns countedPulses / microstepResolution, where countedPulses is what
\* its timer callback counted during the move (reset at the start), and
\* the position changes by exactly direction times that value
C10_ReturnsCountedSteps ==
    (TimedMoveDone /\ result.kind = "ok")
        => /\ pulse_count = ticks
           /\ result.val * current_microstep = ticks * Scale
           /\ (position - pos0) * current_microstep = direction * ticks * Scale

\* a half-stepped constant-rate move towards home, aborted by the home
\* switch after two counted pulses, has returned one full step
C10_Witness ==
    /\ op = "move_for_time" /\ pc = "ret" /\ result.kind = "ok"
    /\ stopped = "home" /\ elapsed < duration
    /\ current_microstep = 2 /\ ticks = 2 /\ direction = -1
    /\ result.val = Scale /\ position = pos0 - Scale


\* a coroutine whose call of operation o has returned normally
NoteDone(t, o) == stask[t].op = o /\ stask[t].pc = "ret" /\ ~stask[t].raised

\* C11: a play_note(i, s) issues one actuator command when the actuator is
\* not at the target engagement and none when it is; a play_note(i, s) that
\* follows a completed play_note(i, s), with no other operation on actuator
\* i between them, issues no command and writes no engagement
C11_SecondPlayIsNoOp ==
    \A t \in Coroutines :
        NoteDone(t, "play_note") =>
            LET r == stask[t]
                ts == target_state(r.idx, r.left)
            IN  /\ r.issued = (IF r.st0 # ts THEN 1 ELSE 0)
                /\ r.rep => (r.issued = 0 /\ ~r.wrote /\ r.st0 = ts)

\* the left note of a servo of orientation -1 was played again right after
\* it had been played: the second call has returned without a command
C11_Witness ==
    \E t \in Coroutines :
        /\ NoteDone(t, "play_note") /\ stask[t].rep
        /\ stask[t].idx = 4 /\ stask[t].left
        /\ servo_states[4] = 1 /\ current_angle[4] = 45
        /\ stask[t].issued = 0


\* the step in which coroutine t calls operation o with a valid index, and
\* the step in which the servo it awaits has settled
NoteCalled(t, o) ==
    stask[t].pc = "idle" /\ stask'[t].op = o /\ ~stask'[t].raised
NoteSettled(t, o, at) ==
    stask[t].op = o /\ stask[t].pc = at /\ stask'[t].pc = "ret"

\* C12: release_note on a centered actuator issues no command and changes
\* no state; on an engaged actuator it issues exactly one center command and
\* sets that actuator's engagement to centered, leaving every other
\* actuator's engagement unchanged
C12_ReleaseNote ==
    [][ \A t \in Coroutines :
          /\ NoteCalled(t, "release_note") =>
               LET k == stask'[t].idx IN
               IF servo_states[k] = 0
               THEN /\ stask'[t].issued = 0 /\ stask'[t].pc = "ret"
                    /\ UNCHANGED <<servo_states, current_angle, servo_drive>>
               ELSE /\ stask'[t].issued = 1 /\ stask'[t].pc = "r_94"
                    /\ current_angle' = [current_angle EXCEPT ![k] = NeutralAngle]
                    /\ UNCHANGED servo_states
          /\ NoteSettled(t, "release_note", "r_94") =>
               /\ servo_states' = [servo_states EXCEPT ![stask[t].idx] = 0]
               /\ stask'[t].issued = 1
               /\ UNCHANGED current_angle
      ]_vars

\* servo 0 was released from its left engagement with one command while
\* servo 4 stayed engaged
C12_Witness ==
    \E t \in Coroutines :
        /\ NoteDone(t, "release_note") /\ stask[t].idx = 0
        /\ stask[t].st0 = -1 /\ stask[t].issued = 1 /\ stask[t].wrote
        /\ servo_states[0] = 0 /\ current_angle[0] = NeutralAngle
        /\ servo_states[4] = 1

\* C13: play_note and release_note with an index outside 0 .. N-1 raise
\* before any hardware action: no actuator command is issued and no
\* engagement changes
C13_InvalidIndexRaises ==
    [][ \A t \in Coroutines :
          \A o \in {"play_note", "release_note"} :
            (stask[t].pc = "idle" /\ stask'[t].op = o
               /\ (stask'[t].arg \notin Servos \/ stask'[t].raised))
              => /\ stask'[t].raised /\ stask'[t].pc = "ret"
                 /\ stask'[t].issued = 0
                 /\ stask'[t].arg \notin Servos
                 /\ UNCHANGED <<servo_states, current_angle, servo_drive>>
      ]_vars

\* a call with index 7 and a call with index -1 have raised while servo 0
\* stayed engaged
C13_Witness ==
    /\ stask["a"].raised /\ stask["a"].arg = NumServos /\ stask["a"].op = "play_note"
    /\ stask["b"].raised /\ stask["b"].arg = -1 /\ stask["b"].op = "release_note"
    /\ servo_states[0] = -1


\* no note operation is suspended at a settle delay
NotesQuiet == \A t \in Coroutines : stask[t].pc \in {"idle", "ret"}
\* the recorded engagement and the angle last commanded say the same
Agrees(st, angle) ==
    \/ st = 0 /\ angle = NeutralAngle
    \/ st = -1 /\ angle = -45
    \/ st = 1 /\ angle = 45

\* C20: after any sequence and interleaving of play_note, release_note,
\* center_all_servos and the interpreter's note release, each actuator's
\* recorded engagement is one of -1, 0, 1 and agrees with the angle last
\* commanded to that actuator
C20_EngagementMatchesAngle ==
    NotesQuiet =>
        \A i \in Servos :
            /\ servo_states[i] \in {-1, 0, 1}
            /\ Agrees(servo_states[i], current_angle[i])

\* ---------------------------------------------------------------- C14
Computed == req_microstep # NoneArg
RequestedFreq == AdjustedFreq(req_sps, req_microstep)

\* C14: for every microstep mode and every requested speed, with the frequency
\* taken as speed x microstep floored at 10 Hz, the computation either fails or
\* returns a divisor in 1..255 with a period in 1..65535; it never returns a
\* pair with a component out of range.
C14_ParametersInRangeOrFail ==
    Computed =>
        /\ RequestedFreq >= MinFreq
        /\ \/ pwm_params = <<>>
           \/ /\ Len(pwm_params) = 2
              /\ pwm_params[1] \in 1 .. MaxDiv
              /\ pwm_params[2] \in 1 .. MaxWrap

\* 59 steps per second at microstep 32: a pair with a divisor above 1
C14_Witness ==
    /\ Computed /\ req_microstep = 32 /\ req_sps = 59
    /\ pwm_params # <<>> /\ pwm_params[1] > 1

\* ---------------------------------------------------------------- C15
\* periodTicks = floor(clockRate / (f x d)), stated by its bounds:
\* w (f d) <= clockRate < (w + 1) (f d), with clockRate = q f + r, 0 <= r < f
IsPeriod(w, f, d) ==
    LET q == ClockFreq \div f IN w * d <= q /\ q < (w + 1) * d
\* some w in 1..65535 is the period of divisor d: the least candidate, w = 1,
\* needs d <= q, and the greatest, w = 65535, needs q < 65536 d
Achievable(f, d) ==
    LET q == ClockFreq \div f IN d <= q /\ q < (MaxWrap + 1) * d

\* C15: the computation returns the smallest divisor d in 1..255 whose period
\* floor(125000000 / (f d)) lies in 1..65535, with that period; it fails exactly
\* when no divisor in 1..255 has one; for f = 2000 it returns (1, 62500).
C15_SmallestDivisor ==
    Computed =>
        LET f == RequestedFreq IN
        /\ ClockFreq = 125000000
        /\ (pwm_params = <<>>) <=> (\A d \in 1 .. MaxDiv : ~Achievable(f, d))
        /\ pwm_params # <<>> =>
             /\ IsPeriod(pwm_params[2], f, pwm_params[1])
             /\ pwm_params[2] \in 1 .. MaxWrap
             /\ \A d \in 1 .. pwm_params[1] - 1 : ~Achievable(f, d)
        /\ f = 2000 => pwm_params = <<1, 62500>>

\* the 2000 Hz example, reached as 2000 steps per second in full-step mode
C15_Witness ==
    /\ Computed /\ req_sps = 2000 /\ req_microstep = 1
    /\ pwm_params = <<1, 62500>>

\* ---------------------------------------------------------------- C16
\* C16: the microstep resolution is always one of {1,2,4,8,16,32}, a call of
\* set_microstep_mode with another value leaves resolution and mode lines
\* unchanged, and the resolution never changes between the start and the end
\* of a move, a call made while a move is in progress being refused.
C16_MicrostepFixedDuringMove ==
    [][ /\ current_microstep' \in MICROSTEP_MODES
        /\ mode_pins' = ModePins(current_microstep')
        /\ result'.kind = "ValueError(microstep)"
             => current_microstep' = current_microstep /\ mode_pins' = mode_pins
        /\ MoveInProgress => current_microstep' = current_microstep ]_vars

\* ---------------------------------------------------------------- C17
\* C17 (as stated): in every step in which the position changes, the driver
\* is enabled and a move is in progress; the position is never written while
\* the driver is disabled
C17_PositionChangesWhileEnabled ==
    [][ position' # position => enabled /\ MoveInProgress ]_vars

\* C17: a timed move writes the position once, in its last statement, after
\* its finally clause has stopped the PWM and the timer and disabled the
\* driver, adding direction x the steps it returns; no other step of a timed
\* move, and no step outside one, changes the position
C17_PositionWrittenAfterDisable ==
    [][ position' # position =>
          /\ MoveInProgress /\ pc \in {"mft_102", "mvs_135"} /\ pc' = "ret"
          /\ Quiescent /\ ~enabled'
          /\ result'.kind = "ok"
          /\ position' = position + direction * result'.val ]_vars

\* a profile move that ran its whole duration has returned, its driver off
\* and its position moved back by the pulses counted
C17_Witness ==
    /\ op = "move_with_variable_speed" /\ pc = "ret" /\ result.kind = "ok"
    /\ stopped = "no" /\ elapsed >= duration /\ duration > 0
    /\ ~enabled /\ direction = -1 /\ position < pos0

\* ---------------------------------------------------------------- C18
PollPeriod == IF op = "move_for_time" THEN PollMs ELSE ProfilePollMs
LoopBody == {"mft_92", "mvs_123", "mvs_124", "mvs_125"}

\* C18: every timed move with a finite duration terminates, with or without a
\* switch or cancellation event: the poll at which the elapsed time has reached
\* the duration leaves the loop, no iteration is entered at or after that time,
\* so the elapsed time stays below duration + one poll period, and the call
\* returns.
C18_MoveSelfTerminates ==
    /\ [][ (MoveInProgress /\ AtPoll /\ elapsed >= duration /\ pc' # pc)
              => pc' \in LoopExit ]_vars
    /\ [][ (MoveInProgress /\ pc' \in LoopBody /\ pc \notin LoopBody)
              => elapsed < duration ]_vars
    /\ [](MoveInProgress => elapsed < duration + PollPeriod)
    /\ (MoveInProgress ~> pc = "ret")

\* a move that no switch, interrupt or error cut short has returned after
\* polling until its duration had elapsed
C18_Witness ==
    /\ op = "move_for_time" /\ pc = "ret" /\ result.kind = "ok"
    /\ stopped = "no" /\ home_level = 1 /\ duration > 0 /\ elapsed >= duration
    /\ elapsed < duration + PollMs

\* ---------------------------------------------------------------- C19
\* the phase of a homing run, by the statement it is at
HomingPhase(at) ==
    CASE at \in {"h_38", "h_39"} -> 0
      [] at \in {"h_42", "h_43"} -> 1
      [] at \in {"h_47", "h_48"} -> 2
      [] at \in {"h_52", "h_53"} -> 3
      [] OTHER -> 4
Homing == op = "home" /\ pc # "idle"
TowardHome == {"h_43", "h_53"}
AwayFromHome == {"h_48"}
HomeStep == Homing /\ (phys' # phys \/ position' # position) /\ pc' \notin {"h_57"}

\* C19: a homing run goes through SeekHome, ClearHome, ReapproachHome, Done in
\* this order and never back; a step toward home is issued only after the home
\* switch was read as not triggered (1), a step away only after it was read as
\* triggered (0); a phase is left at the first read that contradicts its
\* condition.
C19_HomingPhaseOrder ==
    [][ Homing =>
          /\ HomingPhase(pc') >= HomingPhase(pc)
          /\ HomingPhase(pc') <= HomingPhase(pc) + 1
          /\ (pc' \in TowardHome /\ pc' # pc)
                => home_level = 1 /\ HomingPhase(pc') = HomingPhase(pc)
          /\ (pc' \in AwayFromHome /\ pc' # pc)
                => home_level = 0 /\ HomingPhase(pc') = HomingPhase(pc)
          /\ HomeStep =>
                /\ pc \in TowardHome \cup AwayFromHome
                /\ direction' = (IF pc \in TowardHome THEN -1 ELSE 1)
                /\ HomingPhase(pc') = HomingPhase(pc)
          /\ (pc \in {"h_42", "h_52"} /\ home_level # 1 /\ pc' # pc)
                => HomingPhase(pc') = HomingPhase(pc) + 1
          /\ (pc = "h_47" /\ home_level # 0 /\ pc' # pc)
                => HomingPhase(pc') = HomingPhase(pc) + 1 ]_vars

\* homing started with the carriage on the home switch: ClearHome is about to
\* step away and SeekHome has issued no step
C19_Witness ==
    /\ op = "home" /\ pc = "h_48" /\ ~pulsed
    /\ home_level = 0 /\ position = pos0

\* ---------------------------------------------------------------- C21
HomeRunning == op = "home" /\ pc \notin {"idle", "ret"}

\* C21: the homing guard is set only while a homing run is in progress: before
\* the first run, after a completed run and after a run that an error or a
\* task cancellation ended early, the guard is clear.
C21_GuardOnlyWhileHoming == is_homing => HomeRunning

\* ---------------------------------------------------------------- C22
\* a timed move that was called while the limit switch read triggered
StartedOnSwitch ==
    op \in {"move_for_time", "move_with_variable_speed"} /\ level0 = 0

\* C22 (as stated): a timed move started while the limit switch reads
\* triggered performs no poll iteration and, unless an error ends it, returns
\* with the driver disabled, without waiting, for either direction of travel
C22_NoPollWhenStartedOnSwitch ==
    StartedOnSwitch =>
        /\ pc \notin LoopBody
        /\ elapsed = 0
        /\ (pc = "ret" /\ result.kind = "ok") => ~enabled

\* C22: a timed move leaves its loop at the first test that reads the limit
\* switch as triggered, for either direction; started on the switch, it
\* performs a poll iteration only when it is a constant-rate move away from
\* the switch whose own pulses have moved the carriage off the switch before
\* that test; and when it returns normally with the carriage still on the
\* switch it has waited for nothing and has stopped the PWM and the timer and
\* disabled the driver.
C22_NoPollWhenTriggeredAtTest ==
    /\ [][ (MoveInProgress /\ AtPoll /\ home_level = 0 /\ pc' # pc)
              => pc' \in LoopExit ]_vars
    /\ []((StartedOnSwitch /\ pc \in LoopBody)
              => (op = "move_for_time" /\ direction = 1 /\ phys > 0))
    /\ []((StartedOnSwitch /\ pc = "ret" /\ result.kind = "ok" /\ phys = 0)
              => (elapsed = 0 /\ Quiescent))

\* a move away from the switch, asked to last, has returned at once with the
\* carriage where it was
C22_Witness ==
    /\ StartedOnSwitch /\ op = "move_for_time" /\ pc = "ret" /\ result.kind = "ok"
    /\ direction = 1 /\ duration > 0 /\ elapsed = 0
    /\ phys = 0 /\ home_level = 0 /\ Quiescent /\ position = pos0

====
